---- MODULE Spec2Model ----
(***************************************************************************)
(* A model of grf/grf.py, the NewGRF town-name compiler of                 *)
(* frenchies-town-names: the grammar values (TownString, TownReference,    *)
(* TownName), the splitting of oversized parts (TownNames.divideTownNames),*)
(* the registry and emission loop (TownNames.output, TownName.output), the *)
(* byte primitives, and the container writer (GRF.output).                 *)
(*                                                                         *)
(* Bytes are integers 0..255 and a bytearray is a sequence of them.  A     *)
(* Python str is the sequence of its code points, except node IDs, which   *)
(* are TLA+ strings so that ID + "__" + str(k) is the code's own           *)
(* concatenation.  A Python exception is an err field/variable holding the *)
(* exception's class name; "none" means no exception.                      *)
(***************************************************************************)
EXTENDS Integers, Sequences, FiniteSets, TLC

VARIABLES
    actions,        \* GRF.actions: the kinds of the actions, in order
    disk,           \* the file named GRF.filename: [exists, data]
    entries,        \* TownNames.entries
    townNameIDS,    \* TownNames.townNameIDS: dict ID -> handle
    lastTownNameID, \* TownNames.lastTownNameID
    pc,             \* position of the control flow inside GRF.output
    ai,             \* index (1-based) of the action GRF.output is at
    b,              \* the bytearray b of GRF.output
    compiled,       \* the local list `entries` of TownNames.output
    idx,            \* how many elements of `compiled` the emission loop has done
    err,            \* the exception that ended the last GRF.output, or "none"
    run,            \* how many times GRF.output has been called
    diskBefore,     \* history: the file as it was when the current call began
    written,        \* history: the byte stream each completed call wrote
    heap,           \* the objects a script builds: address -> object
    original,       \* address of the TownName that is copied
    clone,          \* address of the TownName that copy() returned, 0 before
    touched,        \* history: address of the node last assigned to or edited
    mutations       \* how many assignments and edits the script has made

\* the objects of a script that builds and copies nodes
copyVars == <<heap, original, clone, touched, mutations>>

vars == <<actions, disk, entries, townNameIDS, lastTownNameID, pc, ai, b,
          compiled, idx, err, run, diskBefore, written, copyVars>>

-----------------------------------------------------------------------------
(* Grammar values: grf.py lines 164-204.                                   *)

None == [isNone |-> TRUE, langs |-> <<>>]

\* A display-name dict {lang: text, ...} in insertion order.
LangDict(pairs) == [isNone |-> FALSE, langs |-> pairs]

TownReference(ref, proba) == [type |-> "ref", ref |-> ref, proba |-> proba]

TownString(text, proba) == [type |-> "str", text |-> text, proba |-> proba]

TownName(entropyStart, ID, name, content) ==
    [ID |-> ID, content |-> content, entropyStart |-> entropyStart, name |-> name]

isTownReference(entry) == entry.type = "ref"

-----------------------------------------------------------------------------
(* math.ceil(math.log2(n)) for an integer n >= 1: the least k with         *)
(* 2^k >= n.  For n <= 0 math.log2 raises ValueError; the callers test     *)
(* that before using CeilLog2.                                             *)

RECURSIVE CeilLog2From(_, _)
CeilLog2From(n, k) == IF 2^k >= n THEN k ELSE CeilLog2From(n, k + 1)

CeilLog2(n) == CeilLog2From(n, 0)

Min(x, y) == IF x <= y THEN x ELSE y

-----------------------------------------------------------------------------
(* TownNames.divideTownNames: grf.py lines 270-295.  The result is         *)
(* [err, nodes]: nodes is the returned list newTownNames when err is       *)
(* "none".                                                                 *)

\* a slip: the chunk size one short of the slice step
HowMany_OneShort(part) == Min(Len(part), 254)

\* line 285: howMany = min(len(part), 255)
HowMany(part) == Min(Len(part), 255)

\* line 286/287: ID + "__" + str(255-max)
ChunkID(ID, max) == ID \o "__" \o ToString(255 - max)

\* a slip: part = part[254:]
RestOfPart_OneEarly(part) == SubSeq(part, 255, Len(part))

\* a slip: part = part[256:]
RestOfPart_OneLate(part) == SubSeq(part, 257, Len(part))

\* line 289: part = part[255:]
RestOfPart(part) == SubSeq(part, 256, Len(part))

\* a slip: del part[:255], which empties the list object itself
ListObjectAfterSlice_InPlace(obj) == SubSeq(obj, 256, Len(obj))

\* line 289 as seen from the list object the name `part` was bound to by the
\* for statement, an element of the caller's entry.content: part[255:] is a
\* new list, and the assignment binds the name to it; the object keeps its
\* elements
ListObjectAfterSlice(obj) == obj

\* line 284: the condition of the while loop
LoopCondition(part, max) == Len(part) > max /\ max > 1

RECURSIVE divideTownNames(_)

\* lines 285-290: the body of the while loop, on the loop's variables
\* st = [err, part, max, newPart, newTownNames, obj]; obj is the list object
\* of the caller's content that the for statement is at.  Where the condition
\* of line 284 is false (or an exception was raised) the loop is over and st
\* stays.
WhileBody(ID, entropy, maxEntropy, st) ==
    IF st.err # "none" \/ ~LoopCondition(st.part, st.max)
    THEN st
    ELSE LET howMany == HowMany(st.part)
             newName == divideTownNames(
                            TownName(entropy + maxEntropy - 8, ChunkID(ID, st.max),
                                     None, <<SubSeq(st.part, 1, howMany)>>))
         IN  IF newName.err # "none"
             THEN [st EXCEPT !.err = newName.err]
             ELSE [err |-> "none",
                   part |-> RestOfPart(st.part),
                   max |-> st.max - 1,
                   newPart |-> Append(st.newPart,
                                      TownReference(ChunkID(ID, st.max), howMany)),
                   newTownNames |-> st.newTownNames \o newName.nodes,
                   obj |-> ListObjectAfterSlice(st.obj)]

\* n turns of the while loop, one after the other (halved so that the
\* evaluation nests log n deep; the state after the first half is bound as
\* the element of a one-element set, so that it is computed once).
RECURSIVE WhileTurns(_, _, _, _, _)
WhileTurns(ID, entropy, maxEntropy, st, n) ==
    IF n = 0 \/ st.err # "none" THEN st
    ELSE IF n = 1 THEN WhileBody(ID, entropy, maxEntropy, st)
    ELSE CHOOSE r \in {WhileTurns(ID, entropy, maxEntropy, half, n - (n \div 2)) :
                          half \in {WhileTurns(ID, entropy, maxEntropy, st, n \div 2)}} :
             TRUE

\* lines 283-291: max = 255, the while loop, newPart.extend(part).  max goes
\* down by one each turn and the loop stops at max = 1: 254 turns at most.
DivideWhile(ID, entropy, maxEntropy, part, newTownNames) ==
    LET st == WhileTurns(ID, entropy, maxEntropy,
                         [err |-> "none", part |-> part, max |-> 255,
                          newPart |-> <<>>, newTownNames |-> newTownNames,
                          obj |-> part],
                         255 - 1)
    IN  [err |-> st.err, newPart |-> st.newPart \o st.part,
         newTownNames |-> st.newTownNames, obj |-> st.obj]

\* lines 279-292: the for loop over content, from part number p on.  entry is
\* the caller's node as it is by now, and is returned as the loop leaves it.
RECURSIVE DivideParts(_, _, _, _)
DivideParts(entry, p, newTownNames, newContent) ==
    IF p > Len(entry.content)
    THEN [err |-> "none", newTownNames |-> newTownNames, newContent |-> newContent,
          entry |-> entry]
    ELSE LET part == entry.content[p]
         IN  IF Len(part) = 0
             THEN \* line 280: math.log2(0) raises ValueError
                  [err |-> "ValueError", newTownNames |-> newTownNames,
                   newContent |-> newContent, entry |-> entry]
             ELSE LET w == DivideWhile(entry.ID, entry.entropyStart,
                                       CeilLog2(Len(part)), part, newTownNames)
                      after == [entry EXCEPT !.content[p] = w.obj]
                  IN  IF w.err # "none"
                      THEN [err |-> w.err, newTownNames |-> newTownNames,
                            newContent |-> newContent, entry |-> after]
                      ELSE DivideParts(after, p + 1, w.newTownNames,
                                       Append(newContent, w.newPart))

\* a slip: the rewritten node put before the nodes made for it
divideTownNames_ParentFirst(entry) ==
    LET r == DivideParts(entry, 1, <<>>, <<>>)
    IN  IF r.err # "none"
        THEN [err |-> r.err, nodes |-> <<>>, entry |-> r.entry]
        ELSE [err |-> "none",
              nodes |-> <<TownName(entry.entropyStart, entry.ID, entry.name,
                                   r.newContent)>> \o r.newTownNames,
              entry |-> r.entry]

divideTownNames(entry) ==
    LET r == DivideParts(entry, 1, <<>>, <<>>)
    IN  IF r.err # "none"
        THEN [err |-> r.err, nodes |-> <<>>, entry |-> r.entry]
        ELSE [err |-> "none",
              nodes |-> Append(r.newTownNames,
                               TownName(entry.entropyStart, entry.ID, entry.name,
                                        r.newContent)),
              entry |-> r.entry]

\* TownNames.output lines 261-263: entries.extend(divideTownNames(entry)) for
\* entry number i, on st = [err, nodes, entries]: nodes is the local list
\* `entries` so far, and entries is self.entries, whose nodes are the caller's
\* objects, as the loop leaves them.
DivideOne(st, i) ==
    LET d == divideTownNames(st.entries[i])
        after == [st.entries EXCEPT ![i] = d.entry]
    IN  IF d.err # "none"
        THEN [err |-> d.err, nodes |-> st.nodes, entries |-> after]
        ELSE [err |-> "none", nodes |-> st.nodes \o d.nodes, entries |-> after]

\* the entries lo..hi in order, until one raises (halved so that the
\* evaluation nests log n deep; the state after the first half is bound as
\* the element of a one-element set, so that it is computed once)
RECURSIVE DivideRange(_, _, _)
DivideRange(st, lo, hi) ==
    IF lo > hi \/ st.err # "none" THEN st
    ELSE IF lo = hi THEN DivideOne(st, lo)
    ELSE CHOOSE r \in {DivideRange(half, ((lo + hi) \div 2) + 1, hi) :
                          half \in {DivideRange(st, lo, (lo + hi) \div 2)}} :
             TRUE

DivideAll(es, i, acc) ==
    DivideRange([err |-> "none", nodes |-> acc, entries |-> es], i, Len(es))

-----------------------------------------------------------------------------
(* The byte primitives: grf.py lines 62-77.  `file` is the bytearray being *)
(* built, as [buf, err]: once an exception is raised (err # "none") the    *)
(* statements after it do not run, so every later write leaves it as is.   *)

NewFile == [buf |-> <<>>, err |-> "none"]

Raise(file, e) == IF file.err # "none" THEN file ELSE [buf |-> file.buf, err |-> e]

\* bytearray.extend(bytes)
Extend(file, bytes) ==
    IF file.err # "none" THEN file ELSE [buf |-> file.buf \o bytes, err |-> "none"]

\* line 62
langs == [l \in {"en", "fr", ""} |-> IF l = "en" THEN 0 ELSE IF l = "fr" THEN 3 ELSE 127]

\* lines 63-64: int.to_bytes(1, 'little') raises OverflowError outside 0..255
output_byte(v, file) ==
    IF v \in 0..255 THEN Extend(file, <<v>>) ELSE Raise(file, "OverflowError")

\* lines 65-69: d & 0xff, (d >> 8) & 0xff, (d >> 16) & 0xff, (d >> 24) & 0xff
output_dword(d, file) ==
    output_byte((d \div 16777216) % 256,
        output_byte((d \div 65536) % 256,
            output_byte((d \div 256) % 256,
                output_byte(d % 256, file))))

\* bytes(c, 'utf-8') for one code point c of a str
Utf8(c) ==
    IF c < 128 THEN <<c>>
    ELSE IF c < 2048 THEN <<192 + (c \div 64), 128 + (c % 64)>>
    ELSE IF c < 65536
         THEN <<224 + (c \div 4096), 128 + ((c \div 64) % 64), 128 + (c % 64)>>
         ELSE <<240 + (c \div 262144), 128 + ((c \div 4096) % 64),
                128 + ((c \div 64) % 64), 128 + (c % 64)>>

RECURSIVE Utf8Bytes(_)
Utf8Bytes(text) ==
    IF text = <<>> THEN <<>> ELSE Utf8(Head(text)) \o Utf8Bytes(Tail(text))

\* a lone surrogate cannot be encoded: bytes(text, 'utf-8') raises
Encodable(text) == \A i \in 1..Len(text) : ~(text[i] \in 55296..57343)

\* lines 71-74
output_string(text, file) ==
    IF Encodable(text)
    THEN Extend(Extend(Extend(file, <<195, 158>>), Utf8Bytes(text)), <<0>>)
    ELSE Raise(Extend(file, <<195, 158>>), "UnicodeEncodeError")

\* lines 75-77
output_lang_string(lang, text, file) ==
    IF lang \in DOMAIN langs
    THEN output_string(text, output_byte(langs[lang], file))
    ELSE Raise(file, "KeyError")

-----------------------------------------------------------------------------
(* TownName.output: grf.py lines 206-237.                                  *)

\* a slip: IDs.get(key, 0), which never raises
IDsGet_Default(IDs, key) ==
    [found |-> TRUE, value |-> IF key \in DOMAIN IDs THEN IDs[key] ELSE 0]

\* IDs[key] of a dict: found is FALSE where Python raises KeyError
IDsGet(IDs, key) ==
    [found |-> key \in DOMAIN IDs, value |-> IF key \in DOMAIN IDs THEN IDs[key] ELSE 0]

\* output_byte(IDs[key] + flag, file)
output_handle(IDs, key, flag, file) ==
    LET h == IDsGet(IDs, key)
    IN  IF h.found THEN output_byte(h.value + flag, file) ELSE Raise(file, "KeyError")

\* 0x80 | proba, for any Python int (floor division gives bit 7 of negatives too)
Or0x80(proba) == IF (proba \div 128) % 2 = 1 THEN proba ELSE proba + 128

\* lines 219-221: the sum of entry.proba over part[lo..hi] (halved so that the
\* evaluation nests log n deep)
RECURSIVE SumRange(_, _, _)
SumRange(part, lo, hi) ==
    IF lo > hi THEN 0
    ELSE IF lo = hi THEN part[lo].proba
    ELSE SumRange(part, lo, (lo + hi) \div 2) + SumRange(part, ((lo + hi) \div 2) + 1, hi)

sum_entropy(part) == SumRange(part, 1, Len(part))

\* lines 212-213, from name number i on
RECURSIVE OutputNames(_, _, _)
OutputNames(names, i, file) ==
    IF i > Len(names) \/ file.err # "none" THEN file
    ELSE OutputNames(names, i + 1,
                     output_lang_string(names[i].lang, names[i].text, file))

\* lines 227-232: one alternative
OutputEntry(entry, IDs, file) ==
    IF isTownReference(entry)
    THEN output_handle(IDs, entry.ref, 0, output_byte(Or0x80(entry.proba), file))
    ELSE output_string(entry.text, output_byte(entry.proba, file))

\* lines 226-232: the alternatives part[lo..hi] in order, each on the file the
\* one before left (halved so that the evaluation nests log n deep; the file
\* after the first half is bound as the element of a one-element set, so that
\* it is computed once)
RECURSIVE OutputEntries(_, _, _, _, _)
OutputEntries(part, lo, hi, IDs, file) ==
    IF lo > hi \/ file.err # "none" THEN file
    ELSE IF lo = hi THEN OutputEntry(part[lo], IDs, file)
    ELSE CHOOSE r \in {OutputEntries(part, ((lo + hi) \div 2) + 1, hi, IDs, half) :
                          half \in {OutputEntries(part, lo, (lo + hi) \div 2, IDs, file)}} :
             TRUE

\* a slip: a sum of 0 given the width 0 instead of math.log2's ValueError
OutputPart_ZeroWidth(self, part, IDs, file) ==
    LET f2 == output_byte(self.entropyStart, output_byte(Len(part), file))
        f3 == IF f2.err # "none" THEN f2
              ELSE IF sum_entropy(part) <= 0 THEN output_byte(0, f2)
              ELSE output_byte(CeilLog2(sum_entropy(part)), f2)
    IN  OutputEntries(part, 1, Len(part), IDs, f3)

\* lines 219-232: one part.  The sum of line 219-221 has no effect of its own;
\* it is used, and math.log2 raises ValueError on a sum <= 0, at line 225.
OutputPart(self, part, IDs, file) ==
    LET f2 == output_byte(self.entropyStart, output_byte(Len(part), file))
        f3 == IF f2.err # "none" THEN f2
              ELSE IF sum_entropy(part) <= 0 THEN Raise(f2, "ValueError")
              ELSE output_byte(CeilLog2(sum_entropy(part)), f2)
    IN  OutputEntries(part, 1, Len(part), IDs, f3)

\* lines 218-232, from part number p on
RECURSIVE OutputParts(_, _, _, _)
OutputParts(self, p, IDs, file) ==
    IF p > Len(self.content) \/ file.err # "none" THEN file
    ELSE OutputParts(self, p + 1, IDs, OutputPart(self, self.content[p], IDs, file))

\* lines 207-232: the record body built in the local bytearray `file`
RecordBody(self, IDs) ==
    LET f1 == output_handle(IDs, self.ID, IF self.name.isNone THEN 0 ELSE 128,
                            Extend(NewFile, <<15>>))
        f2 == IF self.name.isNone THEN f1
              ELSE Extend(OutputNames(self.name.langs, 1, f1), <<0>>)
        f3 == output_byte(Len(self.content), f2)
    IN  OutputParts(self, 1, IDs, f3)

\* lines 234-237: size, marker and body appended to b
Flush(buf, body) == output_dword(Len(body), [buf |-> buf, err |-> "none"]).buf
                    \o <<255>> \o body

\* a slip: the record's bytes written to b as they are made, without the local
\* bytearray, so that an exception leaves what was written so far
TownName_output_Unbuffered(self, buf, IDs) ==
    LET file == RecordBody(self, IDs)
    IN  IF file.err # "none"
        THEN [err |-> file.err, b |-> buf \o file.buf]
        ELSE [err |-> "none", b |-> Flush(buf, file.buf)]

\* TownName.output(self, b, IDs): [err, b], b being the caller's bytearray after
\* the call
TownName_output(self, buf, IDs) ==
    LET file == RecordBody(self, IDs)
    IN  IF file.err # "none"
        THEN [err |-> file.err, b |-> buf]
        ELSE [err |-> "none", b |-> Flush(buf, file.buf)]

-----------------------------------------------------------------------------
(* The inputs.  A part of n literals is n TownString with pairwise         *)
(* different texts (one- and two-byte UTF-8 code points), so that every    *)
(* alternative can be told from every other one after a split.             *)

MaxEntries == 2   \* nodes in the list given to TownNames
MaxRuns == 2      \* calls of GRF.output on the same objects
MaxParts == 2     \* parts of a node given to divideTownNames alone

LiteralText(i) == <<256 + (i \div 200), 32 + (i % 200)>>

\* n literals of weight 1, as in [TownString(s) for s in ...] of generate.py
Literals(n) == [i \in 1..n |-> TownString(LiteralText(i), 1)]

\* n literals with weights 1, 2, 3, 1, 2, 3, ...
BiasedLiterals(n) == [i \in 1..n |-> TownString(LiteralText(i), 1 + ((i - 1) % 3))]

NodeA == TownName(0, "a", None,
                  << <<TownString(<<65, 105, 120>>, 1),
                       TownString(<<67, 97, 101, 110>>, 3)>> >>)

NodeB == TownName(4, "b", LangDict(<<[lang |-> "en", text |-> <<66>>]>>),
                  << <<TownReference("a", 2), TownString(<<201>>, 1)>> >>)

\* another node with the ID of NodeA
NodeA2 == TownName(1, "a", None, << <<TownString(<<65, 108, 98, 105>>, 1)>> >>)

NodeBig == TownName(0, "big", None, <<Literals(300)>>)

\* a second part whose weights sum to 0
NodeZero == TownName(0, "z", None,
                     << <<TownString(<<120>>, 1)>>, <<TownString(<<120>>, 0)>> >>)

\* a weight that does not fit a byte
NodeWide == TownName(0, "w", None,
                     << <<TownString(<<121>>, 1), TownString(<<121>>, 256)>> >>)

\* an empty part
NodeEmpty == TownName(0, "e", None, << <<>> >>)

NodePool == {NodeA, NodeB, NodeA2, NodeBig, NodeZero, NodeWide, NodeEmpty}

SeqsUpTo(S, n) == UNION {[1..k -> S] : k \in 1..n}

EntryLists == SeqsUpTo(NodePool, MaxEntries)

\* a part of 300 whose first alternative is a reference to NodeA
NodeRefBig ==
    TownName(0, "rb", None,
             << [i \in 1..300 |-> IF i = 1 THEN TownReference("a", 1)
                                  ELSE TownString(LiteralText(i), 1)] >>)

\* the last entropyStart of the documented range 0..31, and a part that is split
NodeHigh == TownName(31, "h", None, <<Literals(300)>>)

\* two parts that are split
NodeTwoBig == TownName(0, "t", None, <<Literals(300), BiasedLiterals(300)>>)

\* one node more than the 128 that generate.py (lines 52-56) says a GRF holds
NumMany == 129

ManyNodes ==
    [i \in 1..NumMany |->
        TownName(0, "m" \o ToString(i), None, << <<TownString(<<77>>, 1)>> >>)]

\* a node with a reference to its own ID
NodeSelf == TownName(0, "s", None,
                     << <<TownReference("s", 1), TownString(<<120>>, 1)>> >>)

\* lists that the claims about splitting, handles and references need
ExtraLists ==
    {<<NodeA, NodeRefBig>>, <<NodeHigh>>, <<NodeTwoBig>>, ManyNodes, <<NodeSelf>>}

NoFile == [exists |-> FALSE, data |-> <<>>]

OldFile == [exists |-> TRUE, data |-> <<79, 76, 68>>]

EmptyDict == [k \in {} |-> 0]

-----------------------------------------------------------------------------
(* The state machine: GRF.__init__/TownNames.__init__, then GRF.output     *)
(* (lines 43-59) step by step: open, each action's output, the write.      *)

\* GRF.__init__ (39-41), TownNames.__init__ (255-258), and the objects wired
\* as generate.py does: grf.actions.append(TownNames([...])).
Init ==
    /\ actions \in {<<"TownNames">>, <<"Blank", "TownNames">>}
    /\ disk \in {NoFile, OldFile}
    /\ entries \in EntryLists \cup ExtraLists
    /\ townNameIDS = EmptyDict
    /\ lastTownNameID = 0
    /\ pc = "idle"
    /\ ai = 0
    /\ b = <<>>
    /\ compiled = <<>>
    /\ idx = 0
    /\ err = "none"
    /\ run = 0
    /\ diskBefore = disk
    /\ written = <<>>
    /\ heap = <<>> /\ original = 0 /\ clone = 0 /\ touched = 0 /\ mutations = 0

\* line 44-45: open(self.filename, 'wb') creates or truncates the file; b is a
\* new bytearray.  The call can be made again on the same objects.
GRF_output_open ==
    /\ pc \in {"idle", "done", "failed"}
    /\ run < MaxRuns
    /\ run' = run + 1
    /\ diskBefore' = disk
    /\ disk' = [exists |-> TRUE, data |-> <<>>]
    /\ b' = <<>>
    /\ ai' = 1
    /\ pc' = "actions"
    /\ err' = "none"
    /\ compiled' = <<>>
    /\ idx' = 0
    /\ UNCHANGED <<actions, entries, townNameIDS, lastTownNameID, written>>
    /\ UNCHANGED copyVars

\* lines 301-302: Blank.output
Blank_output ==
    /\ pc = "actions"
    /\ ai <= Len(actions)
    /\ actions[ai] = "Blank"
    /\ b' = b \o <<0, 0, 0, 0, 0, 0, 0, 0>>
    /\ ai' = ai + 1
    /\ UNCHANGED <<actions, disk, entries, townNameIDS, lastTownNameID, pc,
                   compiled, idx, err, run, diskBefore, written>>
    /\ UNCHANGED copyVars

\* TownNames.output lines 261-263: every entry divided; an exception leaves
\* GRF.output through the with statement, which closes the file.
TownNames_divide ==
    /\ pc = "actions"
    /\ ai <= Len(actions)
    /\ actions[ai] = "TownNames"
    /\ \E d \in {DivideAll(entries, 1, <<>>)} :
           /\ compiled' = d.nodes
           /\ entries' = d.entries
           /\ err' = d.err
           /\ pc' = IF d.err = "none" THEN "emit" ELSE "failed"
    /\ idx' = 0
    /\ UNCHANGED <<actions, disk, townNameIDS, lastTownNameID, ai, b,
                   run, diskBefore, written>>
    /\ UNCHANGED copyVars

\* line 266: self.townNameIDS[entry.ID] = self.lastTownNameID
Register(IDs, ID, handle) ==
    [k \in DOMAIN IDs \cup {ID} |-> IF k = ID THEN handle ELSE IDs[k]]

\* TownNames.output lines 265-268: one turn of the emission loop
TownNames_emit ==
    /\ pc = "emit"
    /\ idx < Len(compiled)
    /\ LET entry == compiled[idx + 1]
           IDs == Register(townNameIDS, entry.ID, lastTownNameID)
       IN  \E out \in {TownName_output(entry, b, IDs)} :
           /\ townNameIDS' = IDs
           /\ lastTownNameID' = lastTownNameID + 1
           /\ b' = out.b
           /\ err' = out.err
           /\ pc' = IF out.err = "none" THEN "emit" ELSE "failed"
           /\ idx' = IF out.err = "none" THEN idx + 1 ELSE idx
    /\ UNCHANGED <<actions, disk, entries, ai, compiled, run, diskBefore, written>>
    /\ UNCHANGED copyVars

\* TownNames.output returns: the emission loop is over
TownNames_return ==
    /\ pc = "emit"
    /\ idx = Len(compiled)
    /\ pc' = "actions"
    /\ ai' = ai + 1
    /\ UNCHANGED <<actions, disk, entries, townNameIDS, lastTownNameID, b,
                   compiled, idx, err, run, diskBefore, written>>
    /\ UNCHANGED copyVars

\* lines 49-57: the container header for the body b
ContainerHeader(body) ==
    LET size == Len(body) + 1
    IN  <<0, 0, 71, 82, 70, 130, 13, 10, 26, 10>>
        \o <<size % 256, (size \div 256) % 256, (size \div 65536) % 256,
             size \div 16777216>>
        \o <<0>>

\* lines 49-59: all actions are done; header and body are written and the
\* file is closed.
GRF_output_write ==
    /\ pc = "actions"
    /\ ai > Len(actions)
    /\ disk' = [exists |-> TRUE, data |-> ContainerHeader(b) \o b]
    /\ written' = Append(written, ContainerHeader(b) \o b)
    /\ pc' = "done"
    /\ UNCHANGED <<actions, entries, townNameIDS, lastTownNameID, ai, b,
                   compiled, idx, err, run, diskBefore>>
    /\ UNCHANGED copyVars

Next ==
    \/ GRF_output_open
    \/ Blank_output
    \/ TownNames_divide
    \/ TownNames_emit
    \/ TownNames_return
    \/ GRF_output_write

Spec == Init /\ [][Next]_vars

-----------------------------------------------------------------------------
(* divideTownNames alone: TownNames.output has reached its first loop with *)
(* a list of one node, drawn from nodes of 1..MaxParts parts whose lengths *)
(* lie on both sides of every boundary of the while loop (255/256 for the  *)
(* first turn, 509/510 for the second), plus the first length at which the *)
(* loop stops because max has reached 1, and a node with an empty part.    *)

DivideLens == {1, 255, 256, 300, 509, 510, 600, 764}

\* n alternatives, the first a reference the caller wrote, the others literals
RefThenLiterals(n) ==
    [i \in 1..n |-> IF i = 1 THEN TownReference("x", 1)
                    ELSE TownString(LiteralText(i), 1)]

\* n alternatives, the last a reference the caller wrote, the others literals
LiteralsThenRef(n) ==
    [i \in 1..n |-> IF i = n THEN TownReference("x", 1)
                    ELSE TownString(LiteralText(i), 1)]

PartPool ==
    {Literals(n) : n \in DivideLens} \cup {BiasedLiterals(n) : n \in {256, 600}}
    \cup {RefThenLiterals(300), LiteralsThenRef(300)}

\* 254 turns of 255 alternatives, and two more
LongPart == Literals(255 * 254 + 2)

\* an ID is any str; this one has a quotation mark in it
NodeLong == TownName(0, "l\"", None, <<LongPart>>)

DivideInputs ==
    {<<TownName(0, "n", None, c)>> : c \in SeqsUpTo(PartPool, MaxParts)}
    \cup {<<NodeEmpty>>, <<NodeLong>>}

InitDivide ==
    /\ actions = <<"TownNames">>
    /\ disk = [exists |-> TRUE, data |-> <<>>]
    /\ entries \in DivideInputs
    /\ townNameIDS = EmptyDict
    /\ lastTownNameID = 0
    /\ pc = "actions"
    /\ ai = 1
    /\ b = <<>>
    /\ compiled = <<>>
    /\ idx = 0
    /\ err = "none"
    /\ run = 1
    /\ diskBefore = NoFile
    /\ written = <<>>
    /\ heap = <<>> /\ original = 0 /\ clone = 0 /\ touched = 0 /\ mutations = 0

NextDivide == TownNames_divide

SpecDivide == InitDivide /\ [][NextDivide]_vars

-----------------------------------------------------------------------------
(* What the claims about a split speak of, read from the state after       *)
(* TownNames_divide under SpecDivide: entries holds the one node given,    *)
(* compiled the list divideTownNames returned for it.                      *)

Divided == pc = "emit" /\ Len(entries) = 1

Original == entries[1]

\* the rewritten parent: the node of the result that carries the caller's ID
\* and as many parts as the original
Parent == compiled[Len(compiled)]

NumSynthesized == Len(compiled) - 1

SynthesizedIDs == {compiled[n].ID : n \in 1..NumSynthesized}

AllPartsNonEmpty(es) ==
    \A n \in 1..Len(es) : \A p \in 1..Len(es[n].content) : Len(es[n].content[p]) >= 1

\* an alternative of a rewritten part that is a reference to a synthesized node
IsIntroduced(alt) == isTownReference(alt) /\ alt.ref \in SynthesizedIDs

\* over part[lo..hi]: the weights of the introduced references, and their number
RECURSIVE IntroducedWeightIn(_, _, _)
IntroducedWeightIn(part, lo, hi) ==
    IF lo > hi THEN 0
    ELSE IF lo = hi THEN (IF IsIntroduced(part[lo]) THEN part[lo].proba ELSE 0)
    ELSE IntroducedWeightIn(part, lo, (lo + hi) \div 2)
         + IntroducedWeightIn(part, ((lo + hi) \div 2) + 1, hi)

IntroducedWeight(part) == IntroducedWeightIn(part, 1, Len(part))

IntroducedCount(part) == Cardinality({i \in 1..Len(part) : IsIntroduced(part[i])})

\* the parts of the original that were split, by number
SplitParts == {p \in 1..Len(Original.content) : Len(Original.content[p]) > 255}

\* how many synthesized nodes the parts before part p produced
RECURSIVE ChunksBefore(_)
ChunksBefore(p) ==
    IF p <= 1 THEN 0
    ELSE ChunksBefore(p - 1) + IntroducedCount(Parent.content[p - 1])

\* the single part of the k-th node synthesized for part p
Chunk(p, k) == compiled[ChunksBefore(p) + k].content[1]

\* C1 (as claimed): Capacity invariant: whenever every part of the node given
\* to divideTownNames is non-empty, every part of every node of the compiled
\* sequence, rewritten parent and synthesized nodes alike, has between 1 and
\* 255 alternatives.
C1_CapacityInvariant ==
    (Divided /\ AllPartsNonEmpty(entries)) =>
        \A n \in 1..Len(compiled) : \A p \in 1..Len(compiled[n].content) :
            Len(compiled[n].content[p]) \in 1..255

\* C2 (as claimed): Weight conservation: for every part with more than 255
\* alternatives, the weights of the references introduced into the rewritten
\* parent part sum to the number of alternatives of the original part.
C2_ReferenceWeightsSumToOriginalCount ==
    Divided =>
        \A p \in SplitParts :
            IntroducedWeight(Parent.content[p]) = Len(Original.content[p])

\* C2 (amended): for every part with more than 255 alternatives, each
\* introduced reference weighs the number of alternatives of the synthesized
\* node it was made with, and the weights of the introduced references plus
\* the number of alternatives left inline in the rewritten parent part equal
\* the number of alternatives of the original part.
C2_WeightsCountMovedAlternatives ==
    Divided =>
        \A p \in SplitParts :
            LET newPart == Parent.content[p]
                n == IntroducedCount(newPart)
            IN  /\ \A k \in 1..n :
                       /\ IsIntroduced(newPart[k])
                       /\ newPart[k].proba = Len(Chunk(p, k))
                /\ IntroducedWeight(newPart) + (Len(newPart) - n)
                       = Len(Original.content[p])

\* witness of C2: a part was split twice and alternatives were left inline
C2_Witness ==
    /\ Divided
    /\ \E p \in SplitParts :
           /\ IntroducedCount(Parent.content[p]) = 2
           /\ Len(Parent.content[p]) > 2

ScenarioB == <<TownName(0, "n", None, <<Literals(300)>>)>>

\* C3 (as claimed): Scenario B: a part of 300 literals of weight 1 is split
\* into exactly two synthesized nodes, sizes summing to 300 and none above
\* 255, and the rewritten parent part holds exactly two references, whose
\* weights sum to 300.
C3_ScenarioB_TwoNodes ==
    (Divided /\ entries = ScenarioB) =>
        /\ NumSynthesized = 2
        /\ Len(compiled[1].content[1]) + Len(compiled[2].content[1]) = 300
        /\ Len(compiled[1].content[1]) <= 255
        /\ Len(compiled[2].content[1]) <= 255
        /\ Len(Parent.content[1]) = 2
        /\ \A i \in 1..2 : isTownReference(Parent.content[1][i])
        /\ Parent.content[1][1].proba + Parent.content[1][2].proba = 300

\* C3 (amended): Scenario B: a part of 300 literals of weight 1 is split into
\* exactly one synthesized node, holding the first 255 literals, and the
\* rewritten parent part is one reference of weight 255 to it followed by the
\* other 45 literals, so that its weights still sum to 300.
C3_ScenarioB_OneNode ==
    (Divided /\ entries = ScenarioB) =>
        /\ NumSynthesized = 1
        /\ compiled[1].content = <<SubSeq(Literals(300), 1, 255)>>
        /\ Parent.content =
               << <<TownReference(compiled[1].ID, 255)>>
                  \o SubSeq(Literals(300), 256, 300) >>
        /\ sum_entropy(Parent.content[1]) = 300

\* witness of C3: scenario B has been divided
C3_Witness == Divided /\ entries = ScenarioB /\ Len(Parent.content[1]) = 46

\* where the j-th alternative of the split part p is looked for: in the k-th
\* synthesized node (at = k, i its place there) or inline (at = 0, i its place
\* in the rewritten parent part)
Place(p, j) ==
    LET n == IntroducedCount(Parent.content[p])
    IN  IF j <= 255 * n
        THEN [at |-> ((j - 1) \div 255) + 1, i |-> ((j - 1) % 255) + 1]
        ELSE [at |-> 0, i |-> n + (j - 255 * n)]

\* C4 (as claimed): splitting preserves selection probabilities: every
\* alternative a of a split part is reached in the compiled grammar with
\* probability w(a)/W, W the total weight of the original part: inline in the
\* parent part (total weight P) with w(a)/P, or through the reference of
\* weight r to its node (total weight T) with (r/P)*(w(a)/T); for any positive
\* weights.  The fractions are compared cross-multiplied.
C4_ProbabilitiesPreserved ==
    Divided =>
        \A p \in SplitParts :
            LET orig == Original.content[p]
                newPart == Parent.content[p]
                W == sum_entropy(orig)
                P == sum_entropy(newPart)
            IN  \A j \in 1..Len(orig) :
                    LET pl == Place(p, j)
                    IN  IF pl.at = 0
                        THEN /\ pl.i <= Len(newPart)
                             /\ newPart[pl.i] = orig[j]
                             /\ orig[j].proba * W = orig[j].proba * P
                        ELSE /\ pl.i <= Len(Chunk(p, pl.at))
                             /\ Chunk(p, pl.at)[pl.i] = orig[j]
                             /\ newPart[pl.at].proba * orig[j].proba * W
                                  = orig[j].proba * P * sum_entropy(Chunk(p, pl.at))

-----------------------------------------------------------------------------
(* What the claims about a compilation speak of, read from the states of   *)
(* Spec.                                                                   *)

IDsOf(nodes, lo, hi) == {nodes[j].ID : j \in lo..hi}

\* the IDs that the references of a part, of a node, name
RefsOfPart(part) ==
    {part[k].ref : k \in {j \in 1..Len(part) : isTownReference(part[j])}}

RefsOf(node) == UNION {RefsOfPart(node.content[p]) : p \in 1..Len(node.content)}

\* node number i of the sequence holds a reference to an ID that appears only
\* later in the sequence
HoldsForwardRef(nodes, i) ==
    \E r \in RefsOf(nodes[i]) :
        /\ r \in IDsOf(nodes, i + 1, Len(nodes))
        /\ r \notin IDsOf(nodes, 1, i)

\* every reference of every node names a node that appears earlier
ProducersFirst(nodes) ==
    \A i \in 1..Len(nodes) : RefsOf(nodes[i]) \subseteq IDsOf(nodes, 1, i - 1)

\* a caller's node that is valid but for the order of the sequence: weights
\* of 1 or more that fit their byte, entropyStart in 0..31, display names in
\* known languages, texts that UTF-8 encodes, at most 255 parts, each of
\* them non-empty and short enough for the 254 turns of the splitting loop
WellFormedAlternative(alt) ==
    /\ alt.proba \in 1..255
    /\ isTownReference(alt) \/ Encodable(alt.text)

WellFormedNode(node) ==
    /\ node.entropyStart \in 0..31
    /\ Len(node.content) \in 0..255
    /\ \A i \in 1..Len(node.name.langs) :
           /\ node.name.langs[i].lang \in DOMAIN langs
           /\ Encodable(node.name.langs[i].text)
    /\ \A p \in 1..Len(node.content) :
           /\ Len(node.content[p]) \in 1..(255 * 254 + 1)
           /\ \A k \in 1..Len(node.content[p]) :
                  WellFormedAlternative(node.content[p][k])

WellFormed(nodes) == \A i \in 1..Len(nodes) : WellFormedNode(nodes[i])

\* every handle given so far leaves the flag bit free
HandlesFit == lastTownNameID <= 128

\* C5: Topological resolution: an output call never emits a node that holds a
\* reference to an ID appearing only later in the sequence it emits; on a
\* sequence of well-formed nodes it can only fail with the unresolved-reference
\* error (KeyError), at a node with a reference to an ID that no node up to it
\* has; and it does not fail when every referenced node comes before the
\* referencing one.
C5_TopologicalResolution ==
    /\ \A i \in 1..idx : ~HoldsForwardRef(compiled, i)
    /\ (pc = "failed" /\ HandlesFit /\ WellFormed(entries)) =>
           /\ err = "KeyError"
           /\ ~(RefsOf(compiled[idx + 1]) \subseteq IDsOf(compiled, 1, idx + 1))
           /\ ~ProducersFirst(compiled)

\* witness of C5: the call failed with KeyError at a node holding a forward
\* reference, in a sequence of well-formed nodes
C5_Witness ==
    /\ pc = "failed"
    /\ err = "KeyError"
    /\ WellFormed(entries)
    /\ HoldsForwardRef(compiled, idx + 1)

UniqueIDs(nodes) ==
    \A i, j \in 1..Len(nodes) : nodes[i].ID = nodes[j].ID => i = j

\* the registry of the claim after k nodes: the j-th node has handle j - 1
SequentialIDs(k) ==
    [id \in IDsOf(compiled, 1, k) |->
        (CHOOSE j \in 1..k : compiled[j].ID = id) - 1]

\* the bytes of the records of compiled[1..k], each encoded with the handles
\* of the claim
RECURSIVE SequentialRecords(_)
SequentialRecords(k) ==
    IF k = 0 THEN <<>>
    ELSE TownName_output(compiled[k], SequentialRecords(k - 1), SequentialIDs(k)).b

\* what the actions before the one GRF.output is at have put into b
BlankBytes == IF actions[1] = "Blank" THEN <<0, 0, 0, 0, 0, 0, 0, 0>> ELSE <<>>

\* C6 (as claimed): Sequential handles: in every compilation of nodes with
\* pairwise different IDs the k-th emitted node gets handle k - 1, counting
\* from 0, and every emitted reference byte (hence every emitted record)
\* carries the handle of the node it names; [a, b] gives a 0 and b 1.
C6_SequentialHandles ==
    (pc = "emit" /\ UniqueIDs(compiled)) =>
        /\ lastTownNameID = idx
        /\ \A k \in 1..idx : townNameIDS[compiled[k].ID] = k - 1
        /\ b = BlankBytes \o SequentialRecords(idx)

\* the current call has not yet reached the TownNames action
BeforeTownNames ==
    pc = "actions" /\ \A k \in 1..Len(actions) : actions[k] = "TownNames" => ai <= k

\* C7 (as claimed): Deterministic output, no cross-run registry state: every
\* call of output(), the second one on the same objects included, starts from
\* an empty registry with next handle 0, and all the calls write the same
\* byte stream.
C7_FreshRegistryEachRun ==
    /\ BeforeTownNames => (townNameIDS = EmptyDict /\ lastTownNameID = 0)
    /\ \A i, j \in 1..Len(written) : written[i] = written[j]

\* C8 (as claimed): Duplicate identifiers are rejected: a compilation never
\* goes on after registering a node whose ID an earlier node of the compiled
\* sequence has: no two emitted nodes share an ID.
C8_DuplicateRejected ==
    \A i, j \in 1..idx : compiled[i].ID = compiled[j].ID => i = j

\* C9 (as claimed): No truncated file after failure: when an action's output
\* fails during GRF.output, the file is as it was before the call.
C9_FileUntouchedOnFailure ==
    pc = "failed" => disk = diskBefore

\* the step is a call of TownName.output by the emission loop
EmitStep == pc = "emit" /\ lastTownNameID' = lastTownNameID + 1

\* new is old with one complete record appended: the 4-byte little-endian
\* length n, the marker 0xFF, and a body of n bytes that begins with the
\* record-type tag
OneRecordAppended(old, new) ==
    /\ Len(new) >= Len(old) + 7
    /\ SubSeq(new, 1, Len(old)) = old
    /\ LET n == Len(new) - Len(old) - 5
       IN  /\ new[Len(old) + 1] = n % 256
           /\ new[Len(old) + 2] = (n \div 256) % 256
           /\ new[Len(old) + 3] = (n \div 65536) % 256
           /\ new[Len(old) + 4] = (n \div 16777216) % 256
           /\ new[Len(old) + 5] = 255
           /\ new[Len(old) + 6] = 15

\* C10: Record atomicity: a call of TownName.output that fails leaves the
\* buffer it was given byte for byte as it was, and one that succeeds appends
\* exactly one complete record (4-byte little-endian length, 0xFF, body of
\* that length).
C10_RecordAtomicity ==
    [][EmitStep => IF pc' = "failed" THEN b' = b
                   ELSE pc' = "emit" /\ OneRecordAppended(b, b')]_vars

\* witness of C10: a record was written, and the encoding of the next node
\* failed at its second alternative, on a weight that does not fit a byte
C10_Witness ==
    /\ pc = "failed"
    /\ err = "OverflowError"
    /\ idx = 1
    /\ compiled[2] = NodeWide
    /\ b # <<>>

-----------------------------------------------------------------------------
(* The caller's nodes.                                                     *)

\* a node of self.entries has a part that divideTownNames splits
HasSplitPart(node) == \E p \in 1..Len(node.content) : Len(node.content[p]) > 255

\* C11: The compiler never mutates caller-supplied nodes: no step of
\* GRF.output, the dividing of the entries and the emission of the compiled
\* nodes included, changes the ID, entropyStart, name or the parts (the same
\* alternatives in the same order) of a node of TownNames.entries, also when
\* parts of the node were split.
C11_CallerNodesUnchanged == [][entries' = entries]_vars

\* witness of C11: a node with a part of more than 255 alternatives has been
\* divided and all the compiled nodes emitted
C11_Witness ==
    /\ pc = "emit"
    /\ idx = Len(compiled)
    /\ Len(compiled) > Len(entries)
    /\ \E i \in 1..Len(entries) : HasSplitPart(entries[i])

-----------------------------------------------------------------------------
(* TownName.copy, TownReference.copy and TownString.copy (grf.py 171-172,  *)
(* 181-182, 239-246) on objects that have an identity.  heap is the        *)
(* sequence of the objects made so far, and an address is an index of it.  *)
(* A TownString or TownReference object is its record of fields; a list    *)
(* object holds the addresses of its elements; a TownName object holds its *)
(* entropyStart and ID (an int and a str, which no statement can change in *)
(* place) and the addresses of its name dict (0 for None) and of its       *)
(* content list.                                                           *)

MaxMutations == 2   \* assignments and edits after the copy

mainVars == <<actions, disk, entries, townNameIDS, lastTownNameID, pc, ai, b,
              compiled, idx, err, run, diskBefore, written>>

ListObject(items) == [type |-> "list", items |-> items]

DictObject(pairs) == [type |-> "dict", items |-> pairs]

TownNameObject(entropyStart, ID, name, content) ==
    [type |-> "TownName", entropyStart |-> entropyStart, ID |-> ID,
     name |-> name, content |-> content]

\* a new object: the heap with it, and its address
New(h, obj) == [heap |-> Append(h, obj), addr |-> Len(h) + 1]

\* [TownString(...), TownReference(...), ...]: the objects of alts[i..] made
\* one after the other; addrs are those made so far
RECURSIVE NewEntries(_, _, _, _)
NewEntries(h, alts, i, addrs) ==
    IF i > Len(alts) THEN [heap |-> h, addrs |-> addrs]
    ELSE LET n == New(h, alts[i])
         IN  NewEntries(n.heap, alts, i + 1, Append(addrs, n.addr))

\* the list objects of the parts content[p..]
RECURSIVE NewParts(_, _, _, _)
NewParts(h, content, p, addrs) ==
    IF p > Len(content) THEN [heap |-> h, addrs |-> addrs]
    ELSE LET es == NewEntries(h, content[p], 1, <<>>)
             l == New(es.heap, ListObject(es.addrs))
         IN  NewParts(l.heap, content, p + 1, Append(addrs, l.addr))

\* TownName(entropyStart, ID, name, [[...], ...]) as a script writes it
NewTownName(h, node) ==
    LET ps == NewParts(h, node.content, 1, <<>>)
        c == New(ps.heap, ListObject(ps.addrs))
        d == IF node.name.isNone THEN [heap |-> c.heap, addr |-> 0]
             ELSE New(c.heap, DictObject(node.name.langs))
    IN  New(d.heap, TownNameObject(node.entropyStart, node.ID, d.addr, c.addr))

\* a slip: newpart.append(entry), the same object in both lists
Entry_copy_Shared(h, entry) == [heap |-> h, addr |-> entry]

\* lines 171-172 and 181-182: entry.copy() makes a new object from the fields
Entry_copy(h, entry) ==
    IF isTownReference(h[entry])
    THEN New(h, TownReference(h[entry].ref, h[entry].proba))
    ELSE New(h, TownString(h[entry].text, h[entry].proba))

\* lines 242-244: newpart = [], then newpart.append(entry.copy()) for the
\* entries of part from number i on; newpart holds the addresses so far
RECURSIVE CopyEntries(_, _, _, _)
CopyEntries(h, part, i, newpart) ==
    IF i > Len(part) THEN [heap |-> h, addrs |-> newpart]
    ELSE LET c == Entry_copy(h, part[i])
         IN  CopyEntries(c.heap, part, i + 1, Append(newpart, c.addr))

\* lines 240-245: content = [], then content.append(newpart) for the parts
\* from number p on
RECURSIVE CopyParts(_, _, _, _)
CopyParts(h, parts, p, content) ==
    IF p > Len(parts) THEN [heap |-> h, addrs |-> content]
    ELSE LET es == CopyEntries(h, h[parts[p]].items, 1, <<>>)
             l == New(es.heap, ListObject(es.addrs))
         IN  CopyParts(l.heap, parts, p + 1, Append(content, l.addr))

\* lines 239-246: TownName.copy; line 246 hands self.name, the dict object
\* itself, to the new node
TownName_copy(h, self) ==
    LET ps == CopyParts(h, h[h[self].content].items, 1, <<>>)
        c == New(ps.heap, ListObject(ps.addrs))
    IN  New(c.heap, TownNameObject(h[self].entropyStart, h[self].ID,
                                   h[self].name, c.addr))

\* what a node is worth: the TownName value that reading the object at
\* address a, through its lists, gives
EntriesValue(h, list) == [k \in 1..Len(h[list].items) |-> h[h[list].items[k]]]

ContentValue(h, list) ==
    [p \in 1..Len(h[list].items) |-> EntriesValue(h, h[list].items[p])]

NameValue(h, a) == IF a = 0 THEN None ELSE LangDict(h[a].items)

NodeValue(h, a) ==
    TownName(h[a].entropyStart, h[a].ID, NameValue(h, h[a].name),
             ContentValue(h, h[a].content))

\* the addresses of the part lists, and of the alternatives, of a node
PartLists(h, a) == {h[h[a].content].items[p] : p \in 1..Len(h[h[a].content].items)}

Alternatives(h, a) ==
    UNION {{h[l].items[k] : k \in 1..Len(h[l].items)} : l \in PartLists(h, a)}

CopyInputs == {NodeA, NodeB, NodeZero}

InitCopy ==
    /\ actions = <<>>
    /\ disk = NoFile
    /\ entries = <<>>
    /\ townNameIDS = EmptyDict
    /\ lastTownNameID = 0
    /\ pc = "script"
    /\ ai = 0
    /\ b = <<>>
    /\ compiled = <<>>
    /\ idx = 0
    /\ err = "none"
    /\ run = 0
    /\ diskBefore = NoFile
    /\ written = <<>>
    /\ \E node \in CopyInputs :
           /\ heap = NewTownName(<<>>, node).heap
           /\ original = NewTownName(<<>>, node).addr
    /\ clone = 0
    /\ touched = 0
    /\ mutations = 0

\* generate.py line 642: regionym_start = anthro_start.copy()
Script_copy ==
    /\ clone = 0
    /\ heap' = TownName_copy(heap, original).heap
    /\ clone' = TownName_copy(heap, original).addr
    /\ UNCHANGED <<original, touched, mutations>>
    /\ UNCHANGED mainVars

\* the nodes the script has
Nodes == {original} \cup (IF clone = 0 THEN {} ELSE {clone})

\* a statement of the script after the copy has made the heap h2 by
\* assigning to, or editing the lists of, the node at address t
Mutated(t, h2) ==
    /\ clone # 0
    /\ mutations < MaxMutations
    /\ heap' = h2
    /\ touched' = t
    /\ mutations' = mutations + 1
    /\ UNCHANGED <<original, clone>>
    /\ UNCHANGED mainVars

\* generate.py line 644: node.ID = '...'
Script_set_ID ==
    \E t \in Nodes :
        Mutated(t, [heap EXCEPT ![t].ID = "c"])

\* generate.py line 643: node.entropyStart = 7
Script_set_entropyStart ==
    \E t \in Nodes :
        Mutated(t, [heap EXCEPT ![t].entropyStart = 7])

\* node.content[p].append(TownString('N'))
Script_append ==
    \E t \in Nodes : \E l \in PartLists(heap, t) :
        LET n == New(heap, TownString(<<78>>, 1))
        IN  Mutated(t, [n.heap EXCEPT ![l].items = Append(@, n.addr)])

\* del node.content[p][k]
Script_remove ==
    \E t \in Nodes : \E l \in PartLists(heap, t) :
        \E k \in 1..Len(heap[l].items) :
            Mutated(t, [heap EXCEPT ![l].items =
                            SubSeq(@, 1, k - 1) \o SubSeq(@, k + 1, Len(@))])

\* node.content[p][k].proba = 7
Script_edit ==
    \E t \in Nodes : \E a \in Alternatives(heap, t) :
        Mutated(t, [heap EXCEPT ![a].proba = 7])

NextCopy ==
    \/ Script_copy
    \/ Script_set_ID
    \/ Script_set_entropyStart
    \/ Script_append
    \/ Script_remove
    \/ Script_edit

SpecCopy == InitCopy /\ [][NextCopy]_vars

\* the step is the statement: clone = original.copy()
CopyStep == clone = 0 /\ clone' # 0

\* the step assigns to, or edits the lists of, the node at address t
MutationOf(t) == clone # 0 /\ mutations' = mutations + 1 /\ touched' = t

\* the two nodes are different objects and share no part list and no
\* alternative object
NoAliasing(h, a1, a2) ==
    /\ a1 # a2
    /\ h[a1].content # h[a2].content
    /\ PartLists(h, a1) \cap PartLists(h, a2) = {}
    /\ Alternatives(h, a1) \cap Alternatives(h, a2) = {}

\* C12: Clone independence: TownName.copy returns a new node with equal
\* content that shares no part list and no alternative object with the
\* original (then and ever after), and every later overriding of ID or
\* entropyStart and every adding, removing or editing of alternatives of the
\* clone leaves the original worth what it was, and the other way round.
C12_CloneIndependence ==
    [][/\ CopyStep =>
             /\ NodeValue(heap', clone') = NodeValue(heap, original)
             /\ NodeValue(heap', original') = NodeValue(heap, original)
       /\ clone' # 0 => NoAliasing(heap', original', clone')
       /\ MutationOf(clone) =>
             NodeValue(heap', original') = NodeValue(heap, original)
       /\ MutationOf(original) =>
             NodeValue(heap', clone') = NodeValue(heap, clone)]_vars

\* witness of C12: an alternative of the clone was edited and an alternative
\* of the original removed, and the two nodes are worth different things
C12_Witness ==
    /\ clone # 0
    /\ mutations = 2
    /\ \E a \in Alternatives(heap, clone) : heap[a].proba = 7
    /\ \A a \in Alternatives(heap, original) : heap[a].proba # 7
    /\ Len(ContentValue(heap, heap[original].content)[1])
           < Len(ContentValue(heap, heap[clone].content)[1])

-----------------------------------------------------------------------------
(* The order of the compiled sequence.                                     *)

\* how many nodes divideTownNames returns for each of es[lo..hi]
RECURSIVE BlockLens(_, _, _)
BlockLens(es, lo, hi) ==
    IF lo > hi THEN <<>>
    ELSE IF lo = hi THEN <<Len(divideTownNames(es[lo]).nodes)>>
    ELSE BlockLens(es, lo, (lo + hi) \div 2) \o BlockLens(es, ((lo + hi) \div 2) + 1, hi)

\* base + lens[lo], base + lens[lo] + lens[lo + 1], ... up to lens[hi]
RECURSIVE RunningSums(_, _, _, _)
RunningSums(lens, lo, hi, base) ==
    IF lo > hi THEN <<>>
    ELSE IF lo = hi THEN <<base + lens[lo]>>
    ELSE LET left == RunningSums(lens, lo, (lo + hi) \div 2, base)
         IN  left \o RunningSums(lens, ((lo + hi) \div 2) + 1, hi, left[Len(left)])

\* where in compiled the nodes made for each entry end: the i-th element is
\* the place of the last node that divideTownNames returned for es[i]
BlockEnds(es) == RunningSums(BlockLens(es, 1, Len(es)), 1, Len(es), 0)

\* the entries have just been divided
JustDivided == pc = "emit" /\ idx = 0

\* C13: Splitting keeps producers before consumers: in the nodes that
\* divideTownNames returns for an entry the rewritten parent (the caller's
\* ID, entropyStart and name, as many parts) is the last, and every node that
\* the parent references without the caller's node doing so is one of those
\* before it, which themselves hold only references of the caller; hence when
\* every reference of the caller's sequence names an earlier node, so does
\* every reference of the compiled sequence.
C13_ProducersBeforeConsumers ==
    JustDivided =>
        LET ends == BlockEnds(entries)
        IN  /\ ends[Len(entries)] = Len(compiled)
            /\ \A i \in 1..Len(entries) :
                   LET first == IF i = 1 THEN 1 ELSE ends[i - 1] + 1
                       parent == compiled[ends[i]]
                   IN  /\ first <= ends[i]
                       /\ parent.ID = entries[i].ID
                       /\ parent.entropyStart = entries[i].entropyStart
                       /\ parent.name = entries[i].name
                       /\ Len(parent.content) = Len(entries[i].content)
                       /\ (RefsOf(parent) \ RefsOf(entries[i]))
                              \subseteq IDsOf(compiled, first, ends[i] - 1)
                       /\ \A k \in first..(ends[i] - 1) :
                              RefsOf(compiled[k]) \subseteq RefsOf(entries[i])
            /\ ProducersFirst(entries) => ProducersFirst(compiled)

\* witness of C13: the caller's sequence has its producers first, a part
\* holding a reference to the node before was split, and the reference is now
\* in a node made by the split
C13_Witness ==
    /\ JustDivided
    /\ entries = <<NodeA, NodeRefBig>>
    /\ ProducersFirst(entries)
    /\ Len(compiled) = 3
    /\ "a" \in RefsOf(compiled[2])
    /\ compiled[2].ID \in RefsOf(compiled[3])

-----------------------------------------------------------------------------
(* The bytes of the emitted records.                                       *)

\* the nodes whose records the current call has emitted so far
Emitted == {compiled[k] : k \in 1..idx}

\* the first byte that lines 227-232 emit for an alternative of an emitted
\* node
FirstByte(alt) == OutputEntry(alt, townNameIDS, NewFile).buf[1]

\* C14 (as claimed): Alternative byte encoding: for every alternative of
\* every part of every emitted node, the references introduced by splitting
\* included, the first emitted byte has bit 7 set exactly when the
\* alternative is a reference, and the weight read back from it (the low 7
\* bits for a reference, the byte for a literal) is the alternative's weight.
C14_AlternativeByte ==
    \A node \in Emitted : \A p \in 1..Len(node.content) :
        \A j \in 1..Len(node.content[p]) :
            LET alt == node.content[p][j]
                byte == FirstByte(alt)
            IN  /\ (byte >= 128) <=> isTownReference(alt)
                /\ (IF isTownReference(alt) THEN byte % 128 ELSE byte) = alt.proba

\* C15 (as claimed): Weight-width bound: for every part of every emitted
\* node, the rewritten parent part of a split included, the emitted width
\* ceil(log2(sum of the weights)) is at most 8.
C15_WeightWidthAtMost8 ==
    \A node \in Emitted : \A p \in 1..Len(node.content) :
        CeilLog2(sum_entropy(node.content[p])) <= 8

\* the node has a part whose weights sum to 0: an empty part, or one of
\* zero-weight alternatives only
ZeroWeightPart(node) ==
    \E p \in 1..Len(node.content) : sum_entropy(node.content[p]) = 0

\* how many records (4-byte little-endian length, marker, body) buf holds
\* from place pos on
RECURSIVE RecordCount(_, _)
RecordCount(buf, pos) ==
    IF pos > Len(buf) THEN 0
    ELSE 1 + RecordCount(buf, pos + 5 + buf[pos] + 256 * buf[pos + 1]
                                  + 65536 * buf[pos + 2] + 16777216 * buf[pos + 3])

\* C16: Degenerate weight sum: when a node of the entries has a part of total
\* weight zero, the compilation never completes, it ends with an exception,
\* no record of a node with such a part is emitted, and b holds the records
\* of the nodes emitted before and nothing else.
C16_DegenerateWeightSumFails ==
    (\E i \in 1..Len(entries) : ZeroWeightPart(entries[i])) =>
        /\ pc # "done"
        /\ ~(pc = "emit" /\ idx = Len(compiled))
        /\ pc = "failed" => err # "none"
        /\ \A node \in Emitted : ~ZeroWeightPart(node)
        /\ pc \in {"emit", "failed"} => RecordCount(b, Len(BlankBytes) + 1) = idx

\* witness of C16: a record was emitted, and the next node, which has a part
\* of zero-weight alternatives only, failed with math.log2's ValueError
C16_Witness ==
    /\ pc = "failed"
    /\ err = "ValueError"
    /\ idx = 1
    /\ ZeroWeightPart(compiled[2])
    /\ Len(compiled[2].content[2]) > 0
    /\ b # BlankBytes

\* C17 (as claimed): Entropy-start range: when every node of the entries has
\* entropyStart in 0..31, every node whose record is emitted, the nodes made
\* by splitting included, has entropyStart in 0..31 (or else the compilation
\* has failed before emitting it).
C17_EntropyStartInRange ==
    (\A i \in 1..Len(entries) : entries[i].entropyStart \in 0..31) =>
        \A node \in Emitted : node.entropyStart \in 0..31

\* C18 (as claimed): Split references reach their own chunk: when the nodes
\* of the entries have pairwise different IDs, so have the nodes of the
\* compiled sequence, also for a node with two parts of more than 255
\* alternatives, and so every emitted node still has in the registry the
\* handle it was given: a reference to it resolves to that node, not to one
\* registered under the same ID later.
C18_CompiledIDsDistinct ==
    (pc = "emit" /\ UniqueIDs(entries)) =>
        /\ UniqueIDs(compiled)
        /\ \A k \in 1..idx :
               townNameIDS[compiled[k].ID] = lastTownNameID - idx + (k - 1)

\* the byte after the record-type tag in the record of an emitted node
HandleByte(node) ==
    output_handle(townNameIDS, node.ID, IF node.name.isNone THEN 0 ELSE 128,
                  NewFile).buf[1]

\* C20 (as claimed): Unambiguous handle byte: for every emitted node record
\* the registry handle is below 128 and the byte after the record-type tag
\* is the handle with bit 7 set exactly when the node has display names; a
\* compilation that would need a handle of 128 or more has failed instead.
C20_HandleByteUnambiguous ==
    \A node \in Emitted :
        /\ townNameIDS[node.ID] < 128
        /\ HandleByte(node) % 128 = townNameIDS[node.ID]
        /\ (HandleByte(node) >= 128) <=> ~node.name.isNone

-----------------------------------------------------------------------------
(* Where the alternatives of a split part are, read from the state after   *)
(* TownNames_divide under SpecDivide.                                      *)

\* the single parts of the nodes number lo..hi synthesized for part p, one
\* after the other
RECURSIVE ConcatChunks(_, _, _)
ConcatChunks(p, lo, hi) ==
    IF lo > hi THEN <<>>
    ELSE IF lo = hi THEN Chunk(p, lo)
    ELSE ConcatChunks(p, lo, (lo + hi) \div 2)
         \o ConcatChunks(p, ((lo + hi) \div 2) + 1, hi)

NotAReference(alt) == ~isTownReference(alt)

\* C19 (as claimed): Splitting loses and duplicates nothing: for every split
\* part, the single parts of the synthesized nodes in creation order,
\* followed by the non-reference alternatives left in the rewritten parent
\* part, are the original part's alternatives, each once and in order.
C19_ChunksThenNonReferences ==
    Divided =>
        \A p \in SplitParts :
            ConcatChunks(p, 1, IntroducedCount(Parent.content[p]))
                \o SelectSeq(Parent.content[p], NotAReference)
            = Original.content[p]

\* C19 (amended): for every split part, the rewritten parent part begins
\* with the references to the synthesized nodes, one for each and in creation
\* order, each synthesized node has a single part, and these single parts in
\* creation order, followed by the alternatives of the rewritten parent part
\* that come after those references (the caller's own references among
\* them), are the original part's alternatives, each once and in order.
C19_ChunksThenRemainder ==
    Divided =>
        \A p \in SplitParts :
            LET newPart == Parent.content[p]
                n == IntroducedCount(newPart)
            IN  /\ n >= 1
                /\ \A k \in 1..n :
                       /\ IsIntroduced(newPart[k])
                       /\ newPart[k].ref = compiled[ChunksBefore(p) + k].ID
                       /\ Len(compiled[ChunksBefore(p) + k].content) = 1
                /\ ConcatChunks(p, 1, n) \o SubSeq(newPart, n + 1, Len(newPart))
                       = Original.content[p]

\* witness of C19: a part was split into three nodes, the third made in a
\* turn that found fewer than 255 alternatives left, and another part's
\* remainder holds a reference of the caller
C19_Witness ==
    /\ Divided
    /\ \E p \in SplitParts :
           /\ IntroducedCount(Parent.content[p]) = 3
           /\ Len(Chunk(p, 3)) = 254
    /\ \E p \in SplitParts :
           /\ Len(Parent.content[p]) > IntroducedCount(Parent.content[p])
           /\ isTownReference(Parent.content[p][Len(Parent.content[p])])

-----------------------------------------------------------------------------
(* References of a node to itself.                                         *)

\* C21 (as claimed): Self-reference is unresolved: a node with a part that
\* holds a TownReference to its own ID does not compile: its references are
\* resolved with the IDs of the nodes strictly before it in the compiled
\* sequence only, so the record of such a node is never emitted.
C21_SelfReferenceUnresolved ==
    \A k \in 1..idx :
        compiled[k].ID \in RefsOf(compiled[k]) =>
            compiled[k].ID \in IDsOf(compiled, 1, k - 1)

====
